---- MODULE Spec2Model ----
(***************************************************************************)
(* State-machine model of src/server.js (Strava route map, one-file app).  *)
(*                                                                         *)
(* One browser session is modelled.  Its session blob lives in the cookie  *)
(* (cookie-session): every request loads its own copy req.session from the *)
(* cookie and the middleware writes it back with the response when it was  *)
(* changed.  Handlers that never await (/auth, /logout, the 400 and 401    *)
(* exits) are single steps; the two async handlers (/oauth/callback and    *)
(* /api/activities) are cut at their awaits, so the synchronous handlers   *)
(* can run between two steps of an async one.  Spec and SpecPaged run one  *)
(* async handler at a time; SpecConc adds a second concurrent              *)
(* /api/activities handler (peer).  The pure functions (the normalization  *)
(* of /api/activities, decodePolyline and the heat-map weighting of the    *)
(* page script) are applied to bounded inputs in SpecNorm, SpecDecode and  *)
(* SpecHeat; SpecDecodeLoop runs decodePolyline one character at a time.   *)
(*                                                                         *)
(* JavaScript `undefined` is the string Undef for query parameters and     *)
(* oauth_state; a missing field of a token response is "" (to the code it  *)
(* is falsy like the empty string); expires_at is always a number.         *)
(*                                                                         *)
(* An array of raw activities is kept as a list of runs <<lo, hi>> of      *)
(* upstream activity numbers (Items flattens it); the upstream holds the   *)
(* activities 1..total of the requested range.                             *)
(***************************************************************************)
EXTENDS Integers, Sequences, FiniteSets, TLC

VARIABLES
    cookie,     \* the session blob the browser holds: [strava, oauth_state]
    req,        \* the async handler in flight: its pc, req.session, page, all, and
                \* what it talks to (upstream), the pages it asked for (requested),
                \* the record and clock its latest refreshIfNeeded read (check)
    inflight,   \* requests sent to Strava and not yet answered
    res,        \* the response to the latest request (status 0: still pending)
    ev,         \* the step taken last, with the request data it handled
    peer,       \* a second /api/activities handler of the same session, running
                \* at the same time as req (its stravaFetch up to the page request)
    calc        \* the latest application of a pure function: fn, input, output

vars == <<cookie, req, inflight, res, ev, peer, calc>>

----------------------------------------------------------------------------
(* Program constants *)

per_page == 200
MAX_PAGES == 20
REFRESH_WINDOW == 300

(* Bounds of the model *)

\* the largest upstream data set, in full pages
MaxDataPages == 21
\* the largest upstream data set of the session specification, in full pages
SmallDataPages == 1
\* entries of a trailing partial page
PartialLen == 3

Undef == "undefined"

\* values crypto.randomBytes(8).toString("hex") can take
StateVals == {"s1", "s2"}
\* `state` query parameter of a callback
QueryStates == StateVals \cup {Undef}
\* `code` query parameter of a callback
QueryCodes == {Undef, "", "c1"}
\* Math.floor(Date.now() / 1000)
NowVals == {1000, 1001}

\* req.session.strava when it is not set
NoStrava ==
    [present |-> FALSE, access_token |-> "", refresh_token |-> "",
     expires_at |-> 0, athlete |-> ""]

\* bodies the token endpoint can answer with (res.json())
TokenResponses ==
    { [access_token |-> "A1", refresh_token |-> "R1", expires_at |-> 1300, athlete |-> "P1"],
      [access_token |-> "A2", refresh_token |-> "",   expires_at |-> 1301, athlete |-> ""],
      [access_token |-> "A3", refresh_token |-> "R2", expires_at |-> 0,    athlete |-> "P2"],
      [access_token |-> "",   refresh_token |-> "R1", expires_at |-> 900,  athlete |-> ""] }

\* a new / cleared session
EmptySession == [strava |-> NoStrava, oauth_state |-> Undef]

NoUpstream == [total |-> 0, serverPage |-> 0]
NoCheck == [data |-> NoStrava, now |-> 0]

IdleReq ==
    [pc |-> "idle", session |-> EmptySession, loaded |-> EmptySession,
     page |-> 0, all |-> <<>>,
     upstream |-> NoUpstream, requested |-> <<>>, check |-> NoCheck]

\* the activities endpoint: `total` activities in the requested range, served
\* `serverPage` at a time (per_page when it honours the parameter, more when not)
UpstreamsOf(pages) ==
    [total : {p * per_page + e : p \in pages, e \in {0, PartialLen}},
     serverPage : {per_page}]

Upstreams ==
    UpstreamsOf(0..SmallDataPages)
    \cup [total : {PartialLen}, serverPage : {per_page + 1}]

PagedUpstreams ==
    UpstreamsOf({0, 1, MAX_PAGES - 1, MAX_PAGES, MaxDataPages})
    \cup [total : {PartialLen, MaxDataPages * per_page}, serverPage : {per_page + 1}]

NoRes == [status |-> 0, body |-> "", activities |-> <<>>]

Ev(name) == [name |-> name, code |-> "", state |-> "", page |-> 0, collected |-> 0]

Min(a, b) == IF a < b THEN a ELSE b

\* no second handler is running
IdlePeer ==
    [pc |-> "idle", session |-> EmptySession, loaded |-> EmptySession,
     check |-> NoCheck,
     sent |-> [to |-> "", grant |-> "", code |-> "", refresh_token |-> "",
               bearer |-> "", page |-> 0]]

\* no pure function is being applied
NoCalc == [fn |-> "none", input |-> <<>>, output |-> <<>>]

----------------------------------------------------------------------------
(* Arrays of raw activities *)

RECURSIVE Length(_)
Length(arr) ==
    IF arr = <<>> THEN 0
    ELSE (Head(arr)[2] - Head(arr)[1] + 1) + Length(Tail(arr))

RECURSIVE Items(_)
Items(arr) ==
    IF arr = <<>> THEN <<>>
    ELSE [i \in 1..(Head(arr)[2] - Head(arr)[1] + 1) |-> Head(arr)[1] + i - 1]
         \o Items(Tail(arr))

\* `all = batch` instead of all.concat(batch)
ConcatDropsEarlier(a, b) == b

\* all.concat(batch)
Concat(a, b) == a \o b

\* the upstream's answer to ?page=p
PageOf(u, p) ==
    LET lo == (p - 1) * u.serverPage + 1
        hi == Min(p * u.serverPage, u.total)
    IN IF lo > hi THEN <<>> ELSE << <<lo, hi>> >>

\* upstream activity number i: every fifth entry is null, one has no map,
\* one has a map without summary_polyline, one has no sport_type
Activity(i) ==
    [null |-> (i % 5 = 4),
     id |-> i,
     name |-> "activity",
     has_map |-> (i % 5 # 1),
     summary_polyline |-> IF i % 5 \in {0, 3} THEN "poly" ELSE "",
     sport_type |-> IF i % 5 = 0 THEN "Ride" ELSE "",
     type |-> "Run",
     start_date |-> i,
     distance |-> i]

----------------------------------------------------------------------------
(* Helpers of the server *)

\* isAuthed without the access_token test
isAuthedAnyRecord(sess) ==
    sess.strava.present

isAuthed(sess) ==
    sess.strava.present /\ sess.strava.access_token # ""

\* the condition of refreshIfNeeded's if
NeedsRefresh(data, now) ==
    data.expires_at # 0 /\ data.expires_at - now <= REFRESH_WINDOW

\* a refresh that patches the access token into the old record
RefreshedRecordPatched(json, data) ==
    [data EXCEPT !.access_token = json.access_token]

\* the record a successful refresh installs
RefreshedRecord(json, data) ==
    [present |-> TRUE,
     access_token |-> json.access_token,
     refresh_token |-> json.refresh_token,
     expires_at |-> json.expires_at,
     athlete |-> IF json.athlete # "" THEN json.athlete ELSE data.athlete]

\* the record an accepted callback installs
ExchangedRecord(token) ==
    [present |-> TRUE,
     access_token |-> token.access_token,
     refresh_token |-> token.refresh_token,
     expires_at |-> token.expires_at,
     athlete |-> token.athlete]

\* the callback's two 400 exits
MissingCode(code) == code = Undef \/ code = ""
InvalidState(state, sess) == state # sess.oauth_state

\* the filter of `cleaned`
\* the filter without the test of summary_polyline
HasPolylineAnyMap(a) == ~a.null /\ a.has_map

HasPolyline(a) == ~a.null /\ a.has_map /\ a.summary_polyline # ""

\* the map of `cleaned`
RouteRecord(a) ==
    [id |-> a.id,
     name |-> a.name,
     sport_type |-> IF a.sport_type # "" THEN a.sport_type ELSE a.type,
     start_date |-> a.start_date,
     distance |-> a.distance,
     polyline |-> a.summary_polyline]

Cleaned(arr) ==
    LET raw == Items(arr)
        kept == SelectSeq(raw, LAMBDA i : HasPolyline(Activity(i)))
    IN [k \in 1..Len(kept) |-> RouteRecord(Activity(kept[k]))]

\* the loop without its page cap
NextPageWantedNoCap(batch, page) ==
    ~(Length(batch) = 0 \/ Length(batch) < per_page)

\* the loop stopping on a page of exactly per_page entries
NextPageWantedFullStops(batch, page) ==
    ~(Length(batch) = 0 \/ Length(batch) <= per_page) /\ ~(page + 1 > MAX_PAGES)

\* the loop with the cap one page early
NextPageWantedCapEarly(batch, page) ==
    ~(Length(batch) = 0 \/ Length(batch) < per_page) /\ ~(page + 1 >= MAX_PAGES)

\* the loop goes on to the next page after this batch
NextPageWanted(batch, page) ==
    ~(Length(batch) = 0 \/ Length(batch) < per_page) /\ ~(page + 1 > MAX_PAGES)

\* cookie-session: the cookie after a response, given req.session and what was loaded
SavedCookie(current, sess, loaded) ==
    IF sess # loaded THEN sess ELSE current

TokenRequest(grant, code, refresh_token) ==
    [to |-> "token", grant |-> grant, code |-> code,
     refresh_token |-> refresh_token, bearer |-> "", page |-> 0]

PageRequest(bearer, page) ==
    [to |-> "api", grant |-> "", code |-> "", refresh_token |-> "",
     bearer |-> bearer, page |-> page]

----------------------------------------------------------------------------
Init ==
    /\ cookie = EmptySession
    /\ req = IdleReq
    /\ inflight = {}
    /\ res = NoRes
    /\ ev = Ev("Init")
    /\ peer = IdlePeer
    /\ calc = NoCalc

----------------------------------------------------------------------------
(* Steps shared by the handlers *)

\* the handler of request r sends its response; cookie-session saves r.session
Respond(r, status, body, activities) ==
    /\ req' = IdleReq
    /\ res' = [status |-> status, body |-> body, activities |-> activities]
    /\ cookie' = SavedCookie(cookie, r.session, r.loaded)

\* the page request with the bearer token the request started with
SendPageStaleBearer(r, fl) ==
    /\ req' = [r EXCEPT !.pc = "page", !.requested = Append(r.requested, r.page)]
    /\ inflight' = fl \cup {PageRequest(r.loaded.strava.access_token, r.page)}
    /\ res' = NoRes
    /\ UNCHANGED cookie

\* stravaFetch after refreshIfNeeded: the page request with the session's bearer
\* token (fl: the requests still in flight)
SendPage(r, fl) ==
    IF ~r.session.strava.present
    THEN \* reading access_token of undefined throws; the handler's catch answers
         /\ Respond(r, 500, "server_error", <<>>)
         /\ inflight' = fl
    ELSE /\ req' = [r EXCEPT !.pc = "page", !.requested = Append(r.requested, r.page)]
         /\ inflight' = fl \cup {PageRequest(r.session.strava.access_token, r.page)}
         /\ res' = NoRes
         /\ UNCHANGED cookie

\* stravaFetch up to its first await: refreshIfNeeded reads the record and the
\* clock, then either the refresh request or the page request goes out
StravaFetch(r, now, fl) ==
    LET data == r.session.strava
        rc == [r EXCEPT !.check = [data |-> data, now |-> now]]
    IN IF data.present /\ NeedsRefresh(data, now)
       THEN /\ req' = [rc EXCEPT !.pc = "refresh"]
            /\ inflight' = fl \cup {TokenRequest("refresh_token", "", data.refresh_token)}
            /\ res' = NoRes
            /\ UNCHANGED cookie
       ELSE SendPage(rc, fl)

----------------------------------------------------------------------------
(* GET /auth *)

Auth ==
    \E state \in StateVals :
        /\ cookie' = SavedCookie(cookie, [cookie EXCEPT !.oauth_state = state], cookie)
        /\ res' = [status |-> 302, body |-> "authorize", activities |-> <<>>]
        /\ ev' = [Ev("Auth") EXCEPT !.state = state]
        /\ UNCHANGED <<req, inflight>>
        /\ UNCHANGED <<peer, calc>>

(* GET /oauth/callback *)

\* the callback without its state comparison
CallbackVerdictNoState(code, state, sess) ==
    IF MissingCode(code) THEN "Missing code" ELSE "exchange"

CallbackVerdict(code, state, sess) ==
    IF MissingCode(code) THEN "Missing code"
    ELSE IF InvalidState(state, sess) THEN "Invalid state"
    ELSE "exchange"

OAuthCallback ==
    \E code \in QueryCodes, state \in QueryStates :
        /\ ev' = [Ev("OAuthCallback") EXCEPT !.code = code, !.state = state]
        /\ LET verdict == CallbackVerdict(code, state, cookie)
           IN IF verdict # "exchange"
              THEN /\ res' = [status |-> 400, body |-> verdict, activities |-> <<>>]
                   /\ UNCHANGED <<cookie, req, inflight>>
              ELSE /\ req.pc = "idle"
                   /\ req' = [IdleReq EXCEPT !.pc = "exchange", !.session = cookie,
                                             !.loaded = cookie]
                   /\ inflight' = inflight
                                    \cup {TokenRequest("authorization_code", code, "")}
                   /\ res' = NoRes
                   /\ UNCHANGED cookie
        /\ UNCHANGED <<peer, calc>>

\* tokenExchange returned res.json()
ExchangeOk ==
    /\ req.pc = "exchange"
    /\ \E q \in inflight, token \in TokenResponses :
        /\ q.grant = "authorization_code"
        /\ inflight' = inflight \ {q}
        /\ Respond([req EXCEPT !.session.strava = ExchangedRecord(token)],
                   302, "/", <<>>)
    /\ ev' = [Ev("ExchangeOk") EXCEPT !.state = req.session.oauth_state]
    /\ UNCHANGED <<peer, calc>>

\* a failed exchange that clears the session
ExchangeFailClears ==
    /\ req.pc = "exchange"
    /\ \E q \in inflight :
        /\ q.grant = "authorization_code"
        /\ inflight' = inflight \ {q}
    /\ Respond([req EXCEPT !.session = EmptySession], 500, "OAuth Fehler", <<>>)
    /\ ev' = Ev("ExchangeFail")
    /\ UNCHANGED <<peer, calc>>

\* tokenExchange threw: !res.ok, or fetch / res.json() rejected
ExchangeFail ==
    /\ req.pc = "exchange"
    /\ \E q \in inflight :
        /\ q.grant = "authorization_code"
        /\ inflight' = inflight \ {q}
    /\ Respond(req, 500, "OAuth Fehler", <<>>)
    /\ ev' = Ev("ExchangeFail")
    /\ UNCHANGED <<peer, calc>>

(* POST /logout *)

Logout ==
    /\ cookie' = EmptySession
    /\ res' = [status |-> 302, body |-> "/", activities |-> <<>>]
    /\ ev' = Ev("Logout")
    /\ UNCHANGED <<req, inflight>>
    /\ UNCHANGED <<peer, calc>>

(* GET /api/activities *)

\* the handler up to its first await, against one of the upstreams U
ApiActivitiesOn(U) ==
    /\ ev' = [Ev("ApiActivities") EXCEPT !.page = 1]
    /\ IF ~isAuthed(cookie)
       THEN /\ res' = [status |-> 401, body |-> "not_authenticated", activities |-> <<>>]
            /\ UNCHANGED <<cookie, req, inflight>>
       ELSE /\ req.pc = "idle"
            /\ \E u \in U, now \in NowVals :
                 StravaFetch([IdleReq EXCEPT !.session = cookie, !.loaded = cookie,
                                             !.page = 1, !.upstream = u],
                             now, inflight)
    /\ UNCHANGED <<peer, calc>>

ApiActivities == ApiActivitiesOn(Upstreams)

\* the refresh request came back ok
RefreshOk ==
    /\ req.pc = "refresh"
    /\ \E q \in inflight, json \in TokenResponses :
        /\ q.grant = "refresh_token"
        /\ SendPage([req EXCEPT !.session.strava =
                                    RefreshedRecord(json, req.session.strava)],
                    inflight \ {q})
    /\ ev' = [Ev("RefreshOk") EXCEPT !.page = req.page]
    /\ UNCHANGED <<peer, calc>>

\* a failed refresh that drops the record it could not refresh
RefreshNotOkDropsRecord ==
    /\ req.pc = "refresh"
    /\ \E q \in inflight :
        /\ q.grant = "refresh_token"
        /\ SendPage([req EXCEPT !.session.strava = NoStrava], inflight \ {q})
    /\ ev' = [Ev("RefreshNotOk") EXCEPT !.page = req.page]
    /\ UNCHANGED <<peer, calc>>

\* the refresh request came back with a non-success status: logged only
RefreshNotOk ==
    /\ req.pc = "refresh"
    /\ \E q \in inflight :
        /\ q.grant = "refresh_token"
        /\ SendPage(req, inflight \ {q})
    /\ ev' = [Ev("RefreshNotOk") EXCEPT !.page = req.page]
    /\ UNCHANGED <<peer, calc>>

\* the refresh fetch rejected (network error), or reading the body did: nothing in
\* refreshIfNeeded or stravaFetch catches it, the handler's catch answers 500
RefreshReject ==
    /\ req.pc = "refresh"
    /\ \E q \in inflight :
        /\ q.grant = "refresh_token"
        /\ inflight' = inflight \ {q}
    /\ Respond(req, 500, "server_error", <<>>)
    /\ ev' = [Ev("RefreshReject") EXCEPT !.page = req.page]
    /\ UNCHANGED <<peer, calc>>

\* a page came back ok: concat, then stop or go on with the next stravaFetch
PageOk ==
    /\ req.pc = "page"
    /\ \E q \in inflight :
        /\ q.to = "api"
        /\ LET batch == PageOf(req.upstream, q.page)
               r == [req EXCEPT !.all = Concat(req.all, batch)]
           IN /\ ev' = [Ev("PageOk") EXCEPT !.page = q.page,
                                            !.collected = Length(r.all)]
              /\ IF NextPageWanted(batch, req.page)
                 THEN \E now \in NowVals :
                        StravaFetch([r EXCEPT !.page = req.page + 1], now,
                                    inflight \ {q})
                 ELSE /\ Respond(r, 200, "activities", Cleaned(r.all))
                      /\ inflight' = inflight \ {q}
    /\ UNCHANGED <<peer, calc>>

\* a failed page answered with what was collected so far
PageFailPartial ==
    /\ req.pc = "page"
    /\ \E q \in inflight :
        /\ q.to = "api"
        /\ inflight' = inflight \ {q}
        /\ ev' = [Ev("PageFail") EXCEPT !.page = q.page, !.collected = Length(req.all)]
    /\ Respond(req, 200, "activities", Cleaned(req.all))
    /\ UNCHANGED <<peer, calc>>

\* a page came back with a non-success status, or the fetch rejected: stravaFetch
\* throws and the handler's catch answers 500
PageFail ==
    /\ req.pc = "page"
    /\ \E q \in inflight :
        /\ q.to = "api"
        /\ inflight' = inflight \ {q}
        /\ ev' = [Ev("PageFail") EXCEPT !.page = q.page, !.collected = Length(req.all)]
    /\ Respond(req, 500, "server_error", <<>>)
    /\ UNCHANGED <<peer, calc>>

Next ==
    \/ Auth
    \/ OAuthCallback
    \/ ExchangeOk
    \/ ExchangeFail
    \/ Logout
    \/ ApiActivities
    \/ RefreshOk
    \/ RefreshNotOk
    \/ RefreshReject
    \/ PageOk
    \/ PageFail

Spec == Init /\ [][Next]_vars

----------------------------------------------------------------------------
(* The pagination of one authenticated session, against upstreams up to and *)
(* beyond the page cap.  It starts where an accepted callback leaves the    *)
(* session.                                                                 *)

InitPaged ==
    /\ cookie \in {[strava |-> ExchangedRecord(t), oauth_state |-> Undef] :
                      t \in TokenResponses}
    /\ req = IdleReq
    /\ inflight = {}
    /\ res = NoRes
    /\ ev = Ev("Init")
    /\ peer = IdlePeer
    /\ calc = NoCalc

ApiActivitiesPaged == ApiActivitiesOn(PagedUpstreams)

NextPaged ==
    \/ ApiActivitiesPaged
    \/ RefreshOk
    \/ RefreshNotOk
    \/ RefreshReject
    \/ PageOk
    \/ PageFail

SpecPaged == InitPaged /\ [][NextPaged]_vars

----------------------------------------------------------------------------
(* Two /api/activities requests of one session at the same time.  The second *)
(* handler (peer) loads its own req.session from the cookie, keeps the one   *)
(* request it awaits in peer.sent, and is served an empty first page.        *)

\* the second handler's page request with the bearer token of its session
PeerSendPage(p) ==
    IF ~p.session.strava.present
    THEN /\ peer' = IdlePeer
         /\ res' = [status |-> 500, body |-> "server_error", activities |-> <<>>]
         /\ cookie' = SavedCookie(cookie, p.session, p.loaded)
    ELSE /\ peer' = [p EXCEPT !.pc = "page",
                              !.sent = PageRequest(p.session.strava.access_token, 1)]
         /\ UNCHANGED <<cookie, res>>

\* a stravaFetch that sends no refresh while another request's refresh is in
\* flight (fl)
PeerStravaFetchSingleFlight(p, now, fl) ==
    LET data == p.session.strava
        pc == [p EXCEPT !.check = [data |-> data, now |-> now]]
    IN IF data.present /\ NeedsRefresh(data, now)
          /\ {q \in fl : q.grant = "refresh_token"} = {}
       THEN /\ peer' = [pc EXCEPT !.pc = "refresh",
                                  !.sent = TokenRequest("refresh_token", "",
                                                        data.refresh_token)]
            /\ UNCHANGED <<cookie, res>>
       ELSE PeerSendPage(pc)

\* stravaFetch of the second handler up to its first await; nothing in
\* refreshIfNeeded looks at the requests other handlers have in flight (fl)
PeerStravaFetch(p, now, fl) ==
    LET data == p.session.strava
        pc == [p EXCEPT !.check = [data |-> data, now |-> now]]
    IN IF data.present /\ NeedsRefresh(data, now)
       THEN /\ peer' = [pc EXCEPT !.pc = "refresh",
                                  !.sent = TokenRequest("refresh_token", "",
                                                        data.refresh_token)]
            /\ UNCHANGED <<cookie, res>>
       ELSE PeerSendPage(pc)

\* the second request arrives authenticated (its 401 exit is ApiActivities')
PeerApiActivities ==
    /\ peer.pc = "idle"
    /\ isAuthed(cookie)
    /\ \E now \in NowVals :
         PeerStravaFetch([IdlePeer EXCEPT !.session = cookie, !.loaded = cookie],
                         now, inflight)
    /\ ev' = Ev("PeerApiActivities")
    /\ UNCHANGED <<req, inflight, calc>>

PeerRefreshOk ==
    /\ peer.pc = "refresh"
    /\ \E json \in TokenResponses :
         PeerSendPage([peer EXCEPT !.session.strava =
                                      RefreshedRecord(json, peer.session.strava)])
    /\ ev' = Ev("PeerRefreshOk")
    /\ UNCHANGED <<req, inflight, calc>>

PeerRefreshNotOk ==
    /\ peer.pc = "refresh"
    /\ PeerSendPage(peer)
    /\ ev' = Ev("PeerRefreshNotOk")
    /\ UNCHANGED <<req, inflight, calc>>

PeerRefreshReject ==
    /\ peer.pc = "refresh"
    /\ peer' = IdlePeer
    /\ res' = [status |-> 500, body |-> "server_error", activities |-> <<>>]
    /\ cookie' = SavedCookie(cookie, peer.session, peer.loaded)
    /\ ev' = Ev("PeerRefreshReject")
    /\ UNCHANGED <<req, inflight, calc>>

\* the empty first page came back: the loop breaks, cleaned is empty
PeerPageOk ==
    /\ peer.pc = "page"
    /\ peer' = IdlePeer
    /\ res' = [status |-> 200, body |-> "activities", activities |-> <<>>]
    /\ cookie' = SavedCookie(cookie, peer.session, peer.loaded)
    /\ ev' = Ev("PeerPageOk")
    /\ UNCHANGED <<req, inflight, calc>>

PeerPageFail ==
    /\ peer.pc = "page"
    /\ peer' = IdlePeer
    /\ res' = [status |-> 500, body |-> "server_error", activities |-> <<>>]
    /\ cookie' = SavedCookie(cookie, peer.session, peer.loaded)
    /\ ev' = Ev("PeerPageFail")
    /\ UNCHANGED <<req, inflight, calc>>

\* the first handler is served an empty first page as well
ConcUpstreams == [total : {0}, serverPage : {per_page}]

ApiActivitiesConc == ApiActivitiesOn(ConcUpstreams)

NextConc ==
    \/ ApiActivitiesConc
    \/ RefreshOk
    \/ RefreshNotOk
    \/ RefreshReject
    \/ PageOk
    \/ PageFail
    \/ PeerApiActivities
    \/ PeerRefreshOk
    \/ PeerRefreshNotOk
    \/ PeerRefreshReject
    \/ PeerPageOk
    \/ PeerPageFail

SpecConc == InitPaged /\ [][NextConc]_vars

----------------------------------------------------------------------------
(* Claims about the session and the token lifecycle (Spec) *)

RefreshRequests(fl) == {q \in fl : q.grant = "refresh_token"}
PageRequests(fl) == {q \in fl : q.to = "api"}

\* C1: a callback whose `state` differs from the session's oauth_state, or whose
\* `code` is missing, is answered 400, sends no token-exchange request and leaves
\* the session (its TokenRecord included) as it was.
C1_RejectedCallback ==
    [][ (/\ ev'.name = "OAuthCallback"
         /\ (ev'.state # cookie.oauth_state \/ ev'.code \in {Undef, ""}))
        => (/\ res'.status = 400
            /\ inflight' = inflight
            /\ req' = req
            /\ cookie' = cookie) ]_vars

\* a callback with a code and a wrong state was rejected in a session that holds a
\* TokenRecord and a stored state
C1_Witness ==
    /\ ev.name = "OAuthCallback"
    /\ ev.code = "c1"
    /\ cookie.oauth_state \in StateVals
    /\ ev.state # cookie.oauth_state
    /\ cookie.strava.present
    /\ res.status = 400

\* C2: GET /api/activities in a session without a TokenRecord, or with one whose
\* access_token is empty, is answered 401 not_authenticated, sends nothing to
\* Strava and leaves the session unchanged; a request goes on to fetching only
\* when the TokenRecord is present with a non-empty access_token.
C2_AuthGate ==
    [][ ev'.name = "ApiActivities"
        => IF cookie.strava.present /\ cookie.strava.access_token # ""
           THEN res'.status # 401
           ELSE /\ res'.status = 401
                /\ res'.body = "not_authenticated"
                /\ inflight' = inflight
                /\ req' = req
                /\ cookie' = cookie ]_vars

\* a session holding a TokenRecord with an empty access_token was answered 401
C2_Witness ==
    /\ ev.name = "ApiActivities"
    /\ cookie.strava.present
    /\ cookie.strava.access_token = ""
    /\ res.status = 401
    /\ inflight = {}

\* C3: right after refreshIfNeeded read a present record `data` at clock `now`,
\* exactly one refresh_token request is out when data.expires_at - now <= 300 and
\* none when it is larger.
C3_RefreshWindow ==
    (/\ ev.name \in {"ApiActivities", "PageOk"}
     /\ res.status = 0
     /\ req.pc \in {"refresh", "page"})
    => LET data == req.check.data
           now == req.check.now
       IN IF data.expires_at - now <= REFRESH_WINDOW
          THEN Cardinality(RefreshRequests(inflight)) = 1
          ELSE RefreshRequests(inflight) = {}

\* C4: a failed refresh leaves the TokenRecord as it was, raises nothing (no 500),
\* and stravaFetch goes on to its page request with the stale access token.
C4_FailedRefreshDegrades ==
    [][ ev'.name \in {"RefreshNotOk", "RefreshReject"}
        => (/\ cookie' = cookie
            /\ res'.status # 500
            /\ req'.pc = "page"
            /\ req'.session = req.session
            /\ \E q \in PageRequests(inflight') :
                 q.page = req.page /\ q.bearer = req.session.strava.access_token) ]_vars

FromOneResponse(rec) ==
    rec.present
    => \E t \in TokenResponses :
         t.access_token = rec.access_token /\ t.expires_at = rec.expires_at

\* C5: a present TokenRecord, in the cookie or in a request's session, pairs the
\* access_token and the expires_at of one and the same token-endpoint response.
C5_TokenAndExpiryTogether ==
    FromOneResponse(cookie.strava) /\ FromOneResponse(req.session.strava)

\* the cookie holds a refreshed record: the access token of the response that
\* carries no athlete, with the athlete of the record it replaced
C5_Witness ==
    /\ cookie.strava.present
    /\ cookie.strava.access_token = "A2"
    /\ cookie.strava.athlete = "P1"

\* C6: when a page request fails, the handler is over: no page request is out,
\* the response is 500 server_error and carries no activities.
C6_PageFailureAborts ==
    ev.name = "PageFail"
    => (/\ req.pc = "idle"
        /\ PageRequests(inflight) = {}
        /\ res.status = 500
        /\ res.body = "server_error"
        /\ res.activities = <<>>)

\* the second page failed after a full first page was collected
C6_Witness ==
    /\ ev.name = "PageFail"
    /\ ev.page = 2
    /\ ev.collected = per_page
    /\ res.status = 500

----------------------------------------------------------------------------
(* Claims about the pagination (SpecPaged) *)

\* the index of the first page of upstream u with fewer than per_page entries,
\* MAX_PAGES when there is none up to the cap
StopPage(u) ==
    LET short == {p \in 1..MAX_PAGES : Length(PageOf(u, p)) < per_page}
    IN IF short = {} THEN MAX_PAGES
       ELSE CHOOSE p \in short : \A o \in short : p <= o

\* the step ends the fetch in flight
FetchEnds == req.pc \in {"refresh", "page"} /\ req'.pc = "idle"

\* C7 as claimed: whatever the upstream answers, a fetch makes at most 20 page
\* requests and has accumulated at most 4000 raw activities when it stops.
C7_AtMost4000 ==
    ev.name = "PageOk"
    => ev.page <= MAX_PAGES /\ ev.collected <= MAX_PAGES * per_page

\* C7 amended: at most 20 page requests, the answer to the 20th ends the fetch,
\* and the raw activities accumulated are at most 20 times the longest page: at
\* most 4000 when no page is longer than the 200 asked for.
C7_PageCap ==
    /\ [](Len(req.requested) <= MAX_PAGES)
    /\ [][ ev'.name = "PageOk"
           => (/\ ev'.page <= MAX_PAGES
               /\ (ev'.page = MAX_PAGES => req'.pc = "idle" /\ res'.status = 200)
               /\ ev'.collected <= MAX_PAGES * req.upstream.serverPage
               /\ (req.upstream.serverPage <= per_page
                     => ev'.collected <= MAX_PAGES * per_page)) ]_vars

\* the 20th page came back full and the fetch stopped with 4000 raw activities
C7_Witness ==
    /\ ev.name = "PageOk"
    /\ ev.page = MAX_PAGES
    /\ ev.collected = MAX_PAGES * per_page
    /\ req.pc = "idle"
    /\ res.status = 200

\* C8: the pages requested are 1, 2, ..., k in order; at most one page request is
\* out at a time, it is the latest one asked and the answers to all earlier pages
\* have been received; no fetch asks beyond the first page that has fewer than
\* 200 entries (or page 20), and a fetch that ends 200 has asked exactly up to
\* it: one request when page 1 is short.
C8_PagesInOrder ==
    /\ [](req.requested = [i \in 1..Len(req.requested) |-> i])
    /\ [](/\ Cardinality(PageRequests(inflight)) <= 1
          /\ \A q \in PageRequests(inflight) :
               /\ req.pc = "page"
               /\ q.page = Len(req.requested)
               /\ req.all = [i \in 1..(q.page - 1) |-> PageOf(req.upstream, i)[1]])
    /\ [](req.pc # "idle" => Len(req.requested) <= StopPage(req.upstream))
    /\ [][ (ev'.name = "PageOk" /\ FetchEnds)
           => (/\ res'.status = 200
               /\ Len(req.requested) = StopPage(req.upstream)
               /\ ev'.page = StopPage(req.upstream)) ]_vars

\* a fetch ended 200 on its second page, the first short one
C8_Witness ==
    /\ ev.name = "PageOk"
    /\ ev.page = 2
    /\ ev.collected = per_page + PartialLen
    /\ req.pc = "idle"
    /\ res.status = 200

\* the upstream holds N >= 1 full pages and nothing else, and serves per_page a page
FullPagesOnly(u) ==
    u.serverPage = per_page /\ u.total > 0 /\ u.total % per_page = 0

\* C9 as claimed: over N full pages a fetch that ends 200 has made min(N, 20)
\* page requests.
C9_MinN ==
    [][ (ev'.name = "PageOk" /\ FetchEnds /\ FullPagesOnly(req.upstream))
        => Len(req.requested) = Min(req.upstream.total \div per_page, MAX_PAGES) ]_vars

\* C9 amended: over N full pages a fetch that ends 200 has made min(N + 1, 20)
\* page requests: below the cap it asks for the page after the Nth, which comes
\* back empty.
C9_MinNPlusOne ==
    [][ (ev'.name = "PageOk" /\ FetchEnds /\ FullPagesOnly(req.upstream))
        => Len(req.requested) = Min(req.upstream.total \div per_page + 1, MAX_PAGES) ]_vars

\* over one full page the fetch ended with the empty second page
C9_Witness ==
    /\ ev.name = "PageOk"
    /\ ev.page = 2
    /\ ev.collected = per_page
    /\ req.pc = "idle"
    /\ res.status = 200

\* the route records of the upstream activities 1..n
RoutesUpTo(n) == Cleaned(IF n = 0 THEN <<>> ELSE << <<1, n>> >>)

\* C10 as claimed: a fetch ends 200 or with an error, and a 200 response carries
\* the route records of all upstream activities of the range that have a path.
C10_FullRange ==
    [][ FetchEnds
        => (/\ res'.status \in {200, 500}
            /\ (res'.status = 200
                  => res'.activities = RoutesUpTo(req.upstream.total))) ]_vars

\* C10 amended: a fetch ends 200 or with an error, and a 200 response carries the
\* route records of the activities on the pages fetched, in upstream order: all
\* of the range when it fits the 20 pages, only those of the first 20 pages
\* otherwise.
C10_FetchedPages ==
    [][ FetchEnds
        => (/\ res'.status \in {200, 500}
            /\ (res'.status = 200
                  => res'.activities =
                       RoutesUpTo(Min(req.upstream.total,
                                      MAX_PAGES * req.upstream.serverPage)))) ]_vars

\* a fetch over more than 20 pages of data ended 200 at the cap
C10_Witness ==
    /\ ev.name = "PageOk"
    /\ ev.page = MAX_PAGES
    /\ ev.collected = MAX_PAGES * per_page
    /\ res.status = 200
    /\ Len(res.activities) > 0

----------------------------------------------------------------------------
(* Claims about the token in use and the authorization state *)

\* C11: a page request carries the access_token the session holds after the
\* freshness check of its own stravaFetch call; that check read the record as the
\* previous page left it, and within a fetch only a successful refresh changes
\* the record: from then on the page requests carry the new token.
C11_BearerAfterCheck ==
    /\ [](\A q \in PageRequests(inflight) :
            /\ req.pc = "page"
            /\ q.page = req.page
            /\ q.bearer = req.session.strava.access_token)
    /\ [][ (ev'.name = "ApiActivities" /\ req.pc = "idle" /\ req'.pc # "idle")
           => req'.check.data = cookie.strava ]_vars
    /\ [][ (ev'.name = "PageOk" /\ req'.pc # "idle")
           => req'.check.data = req.session.strava ]_vars
    /\ [][ (req.pc \in {"refresh", "page"} /\ req'.pc \in {"refresh", "page"}
              /\ req'.session # req.session)
           => (/\ ev'.name = "RefreshOk"
               /\ req'.pc = "page"
               /\ \A q \in PageRequests(inflight') :
                    q.bearer = req'.session.strava.access_token) ]_vars

\* the second page is asked with a token that a refresh installed during the fetch
C11_Witness ==
    /\ req.pc = "page"
    /\ req.page = 2
    /\ req.session.strava.access_token # req.loaded.strava.access_token
    /\ \E q \in PageRequests(inflight) :
         q.page = 2 /\ q.bearer = req.session.strava.access_token

\* C12: right after a callback was accepted with state s, a callback presenting
\* the same s again is answered 400 and sends no token-exchange request.
C12_StateConsumed ==
    [][ (/\ ev.name = "ExchangeOk"
         /\ ev.state \in StateVals
         /\ ev'.name = "OAuthCallback"
         /\ ev'.state = ev.state)
        => (res'.status = 400 /\ inflight' = inflight) ]_vars

\* C13: a failed token exchange is answered 500 and leaves the session, its
\* TokenRecord included, exactly as it was.
C13_FailedExchangeKeepsSession ==
    [][ ev'.name = "ExchangeFail"
        => (/\ res'.status = 500
            /\ cookie' = cookie
            /\ req'.pc = "idle") ]_vars

\* an exchange failed in a session that holds a TokenRecord
C13_Witness ==
    /\ ev.name = "ExchangeFail"
    /\ res.status = 500
    /\ cookie.strava.present
    /\ cookie.strava.access_token # ""

\* C14: a successful refresh never leaves the session without a refresh_token
\* (nor without an athlete) that the replaced record had, and takes access_token
\* and expires_at from one response.
C14_RefreshKeepsOmitted ==
    [][ ev'.name = "RefreshOk"
        => (/\ FromOneResponse(req'.session.strava)
            /\ (req.session.strava.athlete # "" => req'.session.strava.athlete # "")
            /\ (req.session.strava.refresh_token # ""
                  => req'.session.strava.refresh_token # "")) ]_vars

\* C16: once the session is not authenticated (after logout), only an accepted
\* callback makes it authenticated again.
C16_LogoutSticks ==
    [][ (~(cookie.strava.present /\ cookie.strava.access_token # "")
           /\ cookie'.strava.present /\ cookie'.strava.access_token # "")
        => ev'.name = "ExchangeOk" ]_vars

\* C20: in a session with no stored AuthorizationState no callback reaches the
\* token exchange: it is answered 400 and sends nothing.
C20_NoStateNoExchange ==
    [][ (ev'.name = "OAuthCallback" /\ cookie.oauth_state = Undef)
        => (res'.status = 400 /\ inflight' = inflight /\ req' = req) ]_vars

----------------------------------------------------------------------------
(* The normalization of /api/activities applied to arbitrary raw arrays *)

NormLen == 3
NormIds == 5

\* raw arrays of up to NormLen entries, each any of the upstream activities
\* 0..NormIds-1 (null, no map, empty polyline, no sport_type, complete)
RawArrays ==
    UNION {[1..n -> {<<i, i>> : i \in 0..(NormIds - 1)}] : n \in 0..NormLen}

InitNorm ==
    /\ cookie = EmptySession
    /\ req = IdleReq
    /\ inflight = {}
    /\ res = NoRes
    /\ ev = Ev("Init")
    /\ peer = IdlePeer
    /\ calc \in {[fn |-> "all", input |-> all, output |-> <<>>] : all \in RawArrays}

\* all.filter(...).map(...) of the handler, on the raw array
Normalize ==
    /\ calc.fn = "all"
    /\ calc' = [fn |-> "normalize", input |-> calc.input,
                output |-> Cleaned(calc.input)]
    /\ ev' = Ev("Normalize")
    /\ UNCHANGED <<cookie, req, inflight, res, peer>>

NextNorm == Normalize

SpecNorm == InitNorm /\ [][NextNorm]_vars

\* the positions of a raw array whose entry has a non-empty map.summary_polyline
WithPolyline(ids) ==
    {p \in 1..Len(ids) :
        LET a == Activity(ids[p])
        IN ~a.null /\ a.has_map /\ a.summary_polyline # ""}

\* the k-th smallest member of a set of positions
KthOf(S, k) == CHOOSE p \in S : Cardinality({x \in S : x <= p}) = k

\* C17: the normalization returns, in their order, exactly one record for every
\* entry with a non-empty map.summary_polyline and none for the other entries
\* (null, no map, empty polyline); a missing sport_type falls back to type.
C17_ExactSubsequence ==
    calc.fn = "normalize" =>
        LET ids == Items(calc.input)
            S == WithPolyline(ids)
        IN /\ Len(calc.output) = Cardinality(S)
           /\ \A k \in 1..Len(calc.output) :
                LET a == Activity(ids[KthOf(S, k)])
                    r == calc.output[k]
                IN /\ r.id = a.id
                   /\ r.polyline = a.summary_polyline
                   /\ r.polyline # ""
                   /\ r.sport_type = (IF a.sport_type = "" THEN a.type ELSE a.sport_type)
                   /\ r.name = a.name /\ r.start_date = a.start_date
                   /\ r.distance = a.distance

\* a null entry, an entry without map and one with an empty polyline are dropped
\* around a kept entry
C17_Witness ==
    /\ calc.fn = "normalize"
    /\ calc.input = << <<4, 4>>, <<3, 3>>, <<2, 2>> >>
    /\ Len(calc.output) = 1
    /\ calc.output[1].id = 3

----------------------------------------------------------------------------
(* decodePolyline of the page script, applied to bounded strings *)

DecLen == 4

\* a string is the sequence of its char codes: 62 (below 63), 63 ('?', 0),
\* 64 ('@', 1), 65 ('A', 2), 95 ('_', 0x20 + 0), 96 ('`', 0x20 + 1)
CharCodes == {62, 63, 64, 65, 95, 96}
Strings == UNION {[1..n -> CharCodes] : n \in 0..DecLen}

\* precision || 5: no caller passes a precision
DefaultPrecision == 5

\* Math.pow(10, precision || 5)
factor == 10 ^ DefaultPrecision

\* what a read past the end of the string yields: NaN - 63 is NaN
NaN == 0 - 100000

\* str.charCodeAt(index) - 63, index counted from 0
ByteAt(str, index) == IF index < Len(str) THEN str[index + 1] - 63 ELSE NaN

\* byte & 0x1f: the low five bits in two's complement; NaN converts to 0
Low5(byte) == IF byte = NaN THEN 0 ELSE byte % 32

\* byte >= 0x20: false for NaN
Continues(byte) == byte # NaN /\ byte >= 32

\* the do-while of one chunk: result |= (byte & 0x1f) << shift; shift += 5.
\* Up to DecLen characters per chunk the shifted bits stay below bit 31 and are
\* disjoint from those already set, so `|=` adds.
RECURSIVE ReadChunk(_, _, _, _)
ReadChunk(str, index, shift, result) ==
    LET byte == ByteAt(str, index)
        r == result + Low5(byte) * (2 ^ shift)
    IN IF Continues(byte)
       THEN ReadChunk(str, index + 1, shift + 5, r)
       ELSE [result |-> r, index |-> index + 1]

\* the sign test left out: result >> 1
ZigzagNoSign(result) == result \div 2

\* (result & 1) ? ~(result >> 1) : (result >> 1)
Zigzag(result) ==
    IF result % 2 = 1 THEN 0 - (result \div 2) - 1 ELSE result \div 2

\* the while loop: two chunks, the sums, one coordinate pushed
RECURSIVE DecodeFrom(_, _, _, _, _)
DecodeFrom(str, index, lat, lng, coordinates) ==
    IF ~(index < Len(str)) THEN coordinates
    ELSE LET c1 == ReadChunk(str, index, 0, 0)
             c2 == ReadChunk(str, c1.index, 0, 0)
             lat2 == lat + Zigzag(c1.result)
             lng2 == lng + Zigzag(c2.result)
         IN DecodeFrom(str, c2.index, lat2, lng2,
                       Append(coordinates, <<lat2, lng2>>))

\* the coordinates as integers: coordinate i is <<lat, lng>> / factor
decodePolyline(str) == DecodeFrom(str, 0, 0, 0, <<>>)

InitDecode ==
    /\ cookie = EmptySession
    /\ req = IdleReq
    /\ inflight = {}
    /\ res = NoRes
    /\ ev = Ev("Init")
    /\ peer = IdlePeer
    /\ calc \in {[fn |-> "str", input |-> str, output |-> <<>>] : str \in Strings}

Decode ==
    /\ calc.fn = "str"
    /\ calc' = [fn |-> "decode", input |-> calc.input,
                output |-> decodePolyline(calc.input)]
    /\ ev' = Ev("Decode")
    /\ UNCHANGED <<cookie, req, inflight, res, peer>>

NextDecode == Decode

SpecDecode == InitDecode /\ [][NextDecode]_vars

\* the positions of the characters that end a chunk (0x20 bit clear)
ChunkEnds(str) == {p \in 1..Len(str) : str[p] - 63 < 32}

\* well-formed: every character in '?'..'~', the last one ends a chunk, and the
\* chunks come in pairs
WellFormed(str) ==
    /\ \A p \in 1..Len(str) : str[p] - 63 \in 0..63
    /\ Len(str) > 0 => Len(str) \in ChunkEnds(str)
    /\ Cardinality(ChunkEnds(str)) % 2 = 0

\* first and last position of the j-th chunk
ChunkLast(str, j) ==
    CHOOSE p \in ChunkEnds(str) : Cardinality({x \in ChunkEnds(str) : x <= p}) = j
ChunkFirst(str, j) == IF j = 1 THEN 1 ELSE ChunkLast(str, j - 1) + 1

\* the value of the j-th chunk: five bits per character, lowest first
RECURSIVE BitsFrom(_, _, _)
BitsFrom(str, p, last) ==
    IF p > last THEN 0
    ELSE ((str[p] - 63) % 32) + 32 * BitsFrom(str, p + 1, last)
ChunkValue(str, j) == BitsFrom(str, ChunkFirst(str, j), ChunkLast(str, j))

\* the signed delta a chunk value stands for
Delta(v) == IF v % 2 = 0 THEN v \div 2 ELSE 0 - ((v + 1) \div 2)

\* the sum of the deltas of the chunks j, j - 2, j - 4, ...
RECURSIVE DeltaSum(_, _)
DeltaSum(str, j) ==
    IF j < 1 THEN 0 ELSE Delta(ChunkValue(str, j)) + DeltaSum(str, j - 2)

\* C19: on a well-formed string of 2k chunks decodePolyline returns k
\* coordinates, and the integer latitude and longitude of the i-th are the sums
\* of the first i latitude deltas and longitude deltas.
C19_RunningSums ==
    (calc.fn = "decode" /\ WellFormed(calc.input)) =>
        /\ 2 * Len(calc.output) = Cardinality(ChunkEnds(calc.input))
        /\ \A i \in 1..Len(calc.output) :
             calc.output[i] = <<DeltaSum(calc.input, 2 * i - 1),
                                DeltaSum(calc.input, 2 * i)>>

\* "`@A": the latitude chunk has two characters (1 + 32 * 1 = 33, delta -17),
\* the longitude chunk one (2, delta +1)
C19_Witness ==
    /\ calc.fn = "decode"
    /\ calc.input = <<96, 64, 65>>
    /\ WellFormed(calc.input)
    /\ calc.output = << <<0 - 17, 1>> >>

----------------------------------------------------------------------------
(* The heat-map branch of the page script's render                          *)
(* Coordinates are kept in units of 1 / factor degree.  A point pushed is   *)
(* the pair of fractions <<latN, lngN>> / D of such units (D = steps + 1    *)
(* for an interpolated point).  The script computes in doubles; the routes  *)
(* drawn here keep every distance away from a multiple of 0.0005 and every  *)
(* real point away from a rounding tie, where doubles and exact arithmetic  *)
(* agree.                                                                   *)

HeatRoutes == 2
HeatPoints == 2
MaxPasses == 2

\* 0.0005 degree (the spacing of added points) and 1 / 10000 degree (the grid)
StepUnits == 50
CellUnits == 10

\* encoded (latitude, longitude) delta pairs: "??" (0, 0), "qB?" (+57, 0),
\* "GM" (+4, +7), "nFoE" (-120, +104)
PointChunks ==
    {<<63, 63>>, <<113, 66, 63>>, <<71, 77>>, <<110, 70, 111, 69>>}

RECURSIVE Flatten(_)
Flatten(ss) == IF ss = <<>> THEN <<>> ELSE Head(ss) \o Flatten(Tail(ss))

\* a.polyline of the filtered activities: routes of up to HeatPoints points
Polylines ==
    {Flatten(ps) : ps \in UNION {[1..n -> PointChunks] : n \in 0..HeatPoints}}
RouteLists == UNION {[1..n -> Polylines] : n \in 0..HeatRoutes}

\* new Map()
NewMap == <<>>

\* Math.round(x * 10000) for x = n / (d * factor): floor(x * 10000 + 1/2)
RoundCell(n, d) == (2 * n + CellUnits * d) \div (2 * CellUnits * d)

\* pushPoint that leaves the weight of a cell it finds at what it was
pushPointNoCount(freq, latN, lngN, d) ==
    LET key == <<RoundCell(latN, d), RoundCell(lngN, d)>>
    IN IF \E i \in 1..Len(freq) : freq[i].key = key
       THEN freq
       ELSE Append(freq, [key |-> key, w |-> 1])

\* pushPoint: freq.get(key), a new cell with w 0 if absent, w += 1, freq.set.
\* freq is the Map in insertion order; the key stands for the string
\* rlat + ',' + rlng and for the cell's lat and lng (key / 10000)
pushPoint(freq, latN, lngN, d) ==
    LET key == <<RoundCell(latN, d), RoundCell(lngN, d)>>
    IN IF \E i \in 1..Len(freq) : freq[i].key = key
       THEN [i \in 1..Len(freq) |->
               IF freq[i].key = key THEN [freq[i] EXCEPT !.w = @ + 1] ELSE freq[i]]
       ELSE Append(freq, [key |-> key, w |-> 0 + 1])

\* Math.max(0, Math.floor(Math.sqrt(dLat * dLat + dLng * dLng) / 0.0005))
steps(dLat, dLng) ==
    LET d2 == dLat * dLat + dLng * dLng
    IN CHOOSE k \in 0..(d2 \div StepUnits) :
         /\ (StepUnits * k) * (StepUnits * k) <= d2
         /\ d2 < (StepUnits * (k + 1)) * (StepUnits * (k + 1))

\* for (s = 1; s <= steps; s++) pushPoint(c + d * s / (steps + 1))
RECURSIVE PushBetween(_, _, _, _, _)
PushBetween(freq, c, n, st, s) ==
    IF s > st THEN freq
    ELSE PushBetween(pushPoint(freq,
                               c[1] * (st + 1) + (n[1] - c[1]) * s,
                               c[2] * (st + 1) + (n[2] - c[2]) * s,
                               st + 1),
                     c, n, st, s + 1)

\* for (i = 0; i < coords.length; i++): the point, then the points up to the next
RECURSIVE PushRoute(_, _, _)
PushRoute(freq, coords, i) ==
    IF i > Len(coords) THEN freq
    ELSE LET c == coords[i]
             f1 == pushPoint(freq, c[1], c[2], 1)
             f2 == IF i < Len(coords)
                   THEN LET n == coords[i + 1]
                        IN PushBetween(f1, c, n, steps(n[1] - c[1], n[2] - c[2]), 1)
                   ELSE f1
         IN PushRoute(f2, coords, i + 1)

\* filtered.forEach: decode the route, push its points
RECURSIVE PushRoutes(_, _)
PushRoutes(freq, routes) ==
    IF routes = <<>> THEN freq
    ELSE PushRoutes(PushRoute(freq, decodePolyline(Head(routes)), 1), Tail(routes))

\* Array.from(freq.values()).map(p => [p.lat, p.lng, p.w]), of a fresh Map
heatData(routes) == PushRoutes(NewMap, routes)

InitHeat ==
    /\ cookie = EmptySession
    /\ req = IdleReq
    /\ inflight = {}
    /\ res = NoRes
    /\ ev = Ev("Init")
    /\ peer = IdlePeer
    /\ calc \in {[fn |-> "routes", input |-> routes, output |-> <<>>, passes |-> 0] :
                    routes \in RouteLists}

\* one render with the heat-map toggle on
RenderHeat ==
    /\ calc.passes < MaxPasses
    /\ calc' = [fn |-> "heat", input |-> calc.input,
                output |-> heatData(calc.input), passes |-> calc.passes + 1]
    /\ ev' = Ev("RenderHeat")
    /\ UNCHANGED <<cookie, req, inflight, res, peer>>

NextHeat == RenderHeat

SpecHeat == InitHeat /\ [][NextHeat]_vars

RECURSIVE SumW(_)
SumW(cells) == IF cells = <<>> THEN 0 ELSE Head(cells).w + SumW(Tail(cells))

\* floor(distance / 0.0005) between two coordinates: the number of whole
\* multiples of the spacing that fit into the distance
Interpolated(c, n) ==
    LET d2 == (n[1] - c[1]) * (n[1] - c[1]) + (n[2] - c[2]) * (n[2] - c[2])
    IN Cardinality({k \in 1..(d2 \div StepUnits + 1) :
                       (StepUnits * k) * (StepUnits * k) <= d2})

\* real plus interpolated points of one decoded route
RECURSIVE PairsFrom(_, _)
PairsFrom(coords, i) ==
    IF i >= Len(coords) THEN 0
    ELSE Interpolated(coords[i], coords[i + 1]) + PairsFrom(coords, i + 1)
RoutePoints(coords) == Len(coords) + PairsFrom(coords, 1)

RECURSIVE RealPoints(_)
RealPoints(routes) ==
    IF routes = <<>> THEN 0
    ELSE Len(decodePolyline(Head(routes))) + RealPoints(Tail(routes))

RECURSIVE AllPoints(_)
AllPoints(routes) ==
    IF routes = <<>> THEN 0
    ELSE RoutePoints(decodePolyline(Head(routes))) + AllPoints(Tail(routes))

\* C18: after every heat-map pass, the first and the repeated one alike, each
\* cell has weight >= 1, no two cells share a key, and the weights add up to the
\* real points plus floor(distance / 0.0005) interpolated points per consecutive
\* pair of the routes of this pass alone, so to no less than the real points.
C18_WeightsCountPoints ==
    calc.fn = "heat" =>
        /\ \A i \in 1..Len(calc.output) : calc.output[i].w >= 1
        /\ \A i, j \in 1..Len(calc.output) :
             calc.output[i].key = calc.output[j].key => i = j
        /\ SumW(calc.output) = AllPoints(calc.input)
        /\ SumW(calc.output) >= RealPoints(calc.input)

\* a second pass over two routes with interpolated points and a cell hit twice
C18_Witness ==
    /\ calc.fn = "heat"
    /\ calc.passes = 2
    /\ Len(calc.input) = 2
    /\ SumW(calc.output) > RealPoints(calc.input)
    /\ \E i \in 1..Len(calc.output) : calc.output[i].w >= 2
    /\ Len(calc.output) >= 4

----------------------------------------------------------------------------
(* Concurrent refreshes *)

\* C15: a request that reads a TokenRecord with a non-zero expires_at and
\* expires_at - now <= 300 sends its own refresh request with the record's
\* refresh token, also while the other request of the session has a refresh in
\* flight; each handler goes on with what its own refresh gave it, so the one
\* whose refresh fails asks its page with the token it read.
C15_RefreshesNotSerialised ==
    /\ [][ (/\ ev'.name = "PeerApiActivities"
            /\ peer'.check.data.expires_at # 0
            /\ peer'.check.data.expires_at - peer'.check.now <= REFRESH_WINDOW)
           => (/\ peer'.pc = "refresh"
               /\ peer'.sent.grant = "refresh_token"
               /\ peer'.sent.refresh_token = cookie.strava.refresh_token) ]_vars
    /\ [][ (/\ ev'.name = "ApiActivities" /\ req.pc = "idle" /\ req'.pc # "idle"
            /\ req'.check.data.expires_at # 0
            /\ req'.check.data.expires_at - req'.check.now <= REFRESH_WINDOW)
           => (/\ req'.pc = "refresh"
               /\ \E q \in RefreshRequests(inflight') :
                    q.refresh_token = cookie.strava.refresh_token) ]_vars
    /\ [][ ev'.name = "PeerRefreshNotOk"
           => (/\ peer'.pc = "page"
               /\ peer'.sent.bearer = peer.loaded.strava.access_token) ]_vars

\* two refresh requests with the same refresh token are in flight for the session
C15_Witness ==
    /\ req.pc = "refresh"
    /\ peer.pc = "refresh"
    /\ peer.sent.refresh_token # ""
    /\ \E q \in RefreshRequests(inflight) :
         q.refresh_token = peer.sent.refresh_token

----------------------------------------------------------------------------
(* What changes the TokenRecord *)

\* the steps in which an /api/activities handler sends its response
FetchResponds == {"PageOk", "PageFail", "RefreshReject"}

\* C21: the TokenRecord a handler works on changes only when its refresh
\* succeeded; the TokenRecord stored for the session changes only with the
\* response of an accepted callback, with logout, or with the response of a
\* fetch whose refresh replaced the record (to that record).  GET /auth changes
\* nothing but the stored AuthorizationState; a rejected callback, a failed
\* exchange, a failed refresh, a 401 and a fetch without a successful refresh
\* leave the stored record as it is.
C21_RecordWriters ==
    /\ [][ (req.pc # "idle" /\ req'.pc # "idle"
              /\ req'.session.strava # req.session.strava)
           => ev'.name = "RefreshOk" ]_vars
    /\ [][ cookie'.strava # cookie.strava
           => \/ ev'.name \in {"ExchangeOk", "Logout"}
              \/ /\ ev'.name \in FetchResponds
                 /\ req.session.strava # req.loaded.strava
                 /\ cookie'.strava = req.session.strava ]_vars
    /\ [][ ev'.name = "Auth"
           => (/\ cookie' = [cookie EXCEPT !.oauth_state = ev'.state]
               /\ req' = req /\ inflight' = inflight) ]_vars
    /\ [][ (\/ ev'.name \in {"OAuthCallback", "ExchangeFail", "RefreshNotOk",
                             "ApiActivities"}
            \/ ev'.name \in FetchResponds /\ req.session.strava = req.loaded.strava)
           => cookie'.strava = cookie.strava ]_vars

\* a fetch answered 200 has stored the record its refresh installed (the athlete
\* kept from the replaced record), after a logout had cleared the session
C21_Witness ==
    /\ ev.name = "PageOk"
    /\ res.status = 200
    /\ req.pc = "idle"
    /\ cookie.strava = [present |-> TRUE, access_token |-> "A2", refresh_token |-> "",
                        expires_at |-> 1301, athlete |-> "P1"]

----------------------------------------------------------------------------
(* decodePolyline step by step: one step per test of the while condition and *)
(* one per character read by a do-while, on every string of Strings          *)

\* while (index < str.length) with the test one position too far
LoopGoesOnPastEnd(str, index) == index <= Len(str)

\* while (index < str.length)
LoopGoesOn(str, index) == index < Len(str)

InitDecodeLoop ==
    /\ cookie = EmptySession
    /\ req = IdleReq
    /\ inflight = {}
    /\ res = NoRes
    /\ ev = Ev("Init")
    /\ peer = IdlePeer
    /\ calc \in {[fn |-> "decodeLoop", input |-> str, pc |-> "while", index |-> 0,
                  lat |-> 0, lng |-> 0, coordinates |-> <<>>,
                  shift |-> 0, result |-> 0, latitude_change |-> 0] :
                    str \in Strings}

\* the while condition: enter the body (byte = null; shift = 0; result = 0) or
\* return coordinates
DecodeWhile ==
    /\ calc.fn = "decodeLoop"
    /\ calc.pc = "while"
    /\ calc' = IF LoopGoesOn(calc.input, calc.index)
               THEN [calc EXCEPT !.pc = "lat", !.shift = 0, !.result = 0]
               ELSE [calc EXCEPT !.pc = "done"]
    /\ ev' = Ev("DecodeWhile")
    /\ UNCHANGED <<cookie, req, inflight, res, peer>>

\* one pass of the first do-while; when it ends, latitude_change is set
DecodeLatStep ==
    /\ calc.fn = "decodeLoop"
    /\ calc.pc = "lat"
    /\ LET byte == ByteAt(calc.input, calc.index)
           r == calc.result + Low5(byte) * (2 ^ calc.shift)
       IN calc' = IF Continues(byte)
                  THEN [calc EXCEPT !.index = @ + 1, !.result = r, !.shift = @ + 5]
                  ELSE [calc EXCEPT !.index = @ + 1, !.pc = "lng",
                                    !.latitude_change = Zigzag(r),
                                    !.shift = 0, !.result = 0]
    /\ ev' = Ev("DecodeLatStep")
    /\ UNCHANGED <<cookie, req, inflight, res, peer>>

\* one pass of the second do-while; when it ends, the sums are updated and the
\* coordinate is pushed
DecodeLngStep ==
    /\ calc.fn = "decodeLoop"
    /\ calc.pc = "lng"
    /\ LET byte == ByteAt(calc.input, calc.index)
           r == calc.result + Low5(byte) * (2 ^ calc.shift)
           lat2 == calc.lat + calc.latitude_change
           lng2 == calc.lng + Zigzag(r)
       IN calc' = IF Continues(byte)
                  THEN [calc EXCEPT !.index = @ + 1, !.result = r, !.shift = @ + 5]
                  ELSE [calc EXCEPT !.index = @ + 1, !.pc = "while",
                                    !.lat = lat2, !.lng = lng2,
                                    !.coordinates = Append(@, <<lat2, lng2>>),
                                    !.shift = @ + 5, !.result = r]
    /\ ev' = Ev("DecodeLngStep")
    /\ UNCHANGED <<cookie, req, inflight, res, peer>>

NextDecodeLoop ==
    \/ DecodeWhile
    \/ DecodeLatStep
    \/ DecodeLngStep

\* the script runs the function to its end once it is called
SpecDecodeLoop ==
    InitDecodeLoop /\ [][NextDecodeLoop]_vars /\ WF_vars(NextDecodeLoop)

\* C22: on every string, malformed ones included, decodePolyline returns: every
\* character read moves the index on by one (never more than two past the end),
\* a coordinate is appended exactly when an outer iteration completes and then
\* just one, and there are never more coordinates than characters.
C22_Terminates ==
    /\ <>(calc.pc = "done")
    /\ [](/\ calc.index <= Len(calc.input) + 2
          /\ Len(calc.coordinates) <= Len(calc.input))
    /\ [][ (calc.pc \in {"lat", "lng"} /\ calc' # calc)
           => calc'.index = calc.index + 1 ]_vars
    /\ [][ calc.pc \in {"while", "done"} => calc'.index = calc.index ]_vars
    /\ [][ IF calc.pc = "lng" /\ calc'.pc = "while"
           THEN /\ Len(calc'.coordinates) = Len(calc.coordinates) + 1
                /\ SubSeq(calc'.coordinates, 1, Len(calc.coordinates))
                     = calc.coordinates
           ELSE calc'.coordinates = calc.coordinates ]_vars

\* "`@`": the string ends inside the longitude chunk, whose last character has
\* the continuation bit set; the loop has returned one coordinate, the same as
\* the function computed at once
C22_Witness ==
    /\ calc.fn = "decodeLoop"
    /\ calc.pc = "done"
    /\ calc.input = <<96, 64, 96>>
    /\ calc.index = Len(calc.input) + 1
    /\ Len(calc.coordinates) = 1
    /\ calc.coordinates = decodePolyline(calc.input)

====
